---- MODULE Spec2Model ----
(***************************************************************************)
(* Model of the text fetch-and-compare tool (src/app.py, src/main.py,      *)
(* src/html_report.py).                                                    *)
(*                                                                         *)
(* A Python str is a sequence of one-character strings.  The Cyrillic      *)
(* letters of the error prefix are written in Latin transliteration, one   *)
(* token per letter ("O" "sh" "i" "b" "k" "a").                            *)
(***************************************************************************)
EXTENDS Integers, Sequences, FiniteSets, TLC

VARIABLES
    pc,             \* position of the run (of main, or of a pure-function harness)
    input_csv,      \* the file at INPUT_CSV: [readable, columns, rows of raw fields]
    df_input,       \* the loaded table: [columns, rows of cells]
    idx,            \* index of the row the current loop is at (1-based)
    url,            \* main's local url
    lib_text,       \* main's local lib_text / compare_texts' second argument
    original_text,  \* main's local original_text / compare_texts' first argument
    comparison,     \* the dict compare_texts returned
    results,        \* main's list results
    attempt_number, \* tenacity's attempt counter of the running call
    gets,           \* HTTP GETs issued by the running / last call
    all_failed,     \* every GET of the running / last call failed
    waits,          \* waits slept between the attempts of the running / last call
    reports,        \* what each report writer was handed, in the order written
    processed,      \* history: the calls of extract_text_from_url, in order:
                    \* [loop, row, fetch_failed (every GET of the call failed)]
    skipped,        \* history: per loop, the rows skipped for an empty lib_text
    norm,           \* harness of normalize: the last result
    response        \* the response of the last requests.get (harness of the
                    \* extraction: the response handed to it)

vars == << pc, input_csv, df_input, idx, url, lib_text, original_text,
           comparison, results, attempt_number, gets, all_failed, waits, reports,
           processed, skipped, norm, response >>

----------------------------------------------------------------------------
(* Python str helpers *)

\* the cap of the samples: the slices [:3] of compare_texts
ExamplesCap == 3

NL == "\n"
SP == " "

\* str.isspace() / the regex class \s, on the characters of the model
IsSpace(c) == c \in {SP, NL, "\t"}

\* str.lower() on one character
LowerChar(c) ==
    CASE c = "A" -> "a"
      [] c = "B" -> "b"
      [] c = "O" -> "o"
      [] OTHER   -> c

lower(s) == [i \in 1..Len(s) |-> LowerChar(s[i])]

\* str.strip(): drop the leading and trailing whitespace
strip(s) ==
    LET keep == {i \in 1..Len(s) : ~IsSpace(s[i])}
    IN  IF keep = {} THEN << >>
        ELSE LET lo == CHOOSE i \in keep : \A j \in keep : i <= j
                 hi == CHOOSE i \in keep : \A j \in keep : j <= i
             IN  SubSeq(s, lo, hi)

\* re.sub(r'\s+', ' ', s): every maximal run of whitespace becomes one space
RECURSIVE SubWsFrom(_, _)
SubWsFrom(s, i) ==
    IF i > Len(s) THEN << >>
    ELSE IF IsSpace(s[i])
         THEN IF i > 1 /\ IsSpace(s[i-1]) THEN SubWsFrom(s, i + 1)
              ELSE << SP >> \o SubWsFrom(s, i + 1)
         ELSE << s[i] >> \o SubWsFrom(s, i + 1)

sub_ws(s) == SubWsFrom(s, 1)

\* A plausible slip: the surrounding whitespace is folded, not stripped.
normalize_nostrip(text) == sub_ws(lower(text))

\* compare_texts.normalize
normalize(text) == sub_ws(lower(strip(text)))

\* p in t, for str
IsSubstring(p, t) ==
    \E i \in 0..(Len(t) - Len(p)) : SubSeq(t, i + 1, i + Len(p)) = p

\* str.startswith
startswith(s, p) == Len(s) >= Len(p) /\ SubSeq(s, 1, Len(p)) = p

\* str.split('\n'): the pieces between the newlines (always at least one piece)
RECURSIVE SplitFrom(_, _, _)
SplitFrom(s, i, cur) ==
    IF i > Len(s) THEN << cur >>
    ELSE IF s[i] = NL THEN << cur >> \o SplitFrom(s, i + 1, << >>)
         ELSE SplitFrom(s, i + 1, Append(cur, s[i]))

split_lines(s) == SplitFrom(s, 1, << >>)

\* '\n'.join(lines)
RECURSIVE join_lines(_)
join_lines(ls) ==
    IF ls = << >> THEN << >>
    ELSE IF Len(ls) = 1 THEN ls[1]
         ELSE ls[1] \o << NL >> \o join_lines(Tail(ls))

\* [x for x in s if P(x)] for sequences
RECURSIVE SelectSeqFrom(_, _, _)
SelectSeqFrom(s, keepIdx, i) ==
    IF i > Len(s) THEN << >>
    ELSE IF i \in keepIdx THEN << s[i] >> \o SelectSeqFrom(s, keepIdx, i + 1)
         ELSE SelectSeqFrom(s, keepIdx, i + 1)

Range(s) == {s[i] : i \in 1..Len(s)}

----------------------------------------------------------------------------
(* difflib.SequenceMatcher(None, a, b), as compare_texts uses it.  Windows   *)
(* are 1-based and inclusive: a[alo..ahi], b[blo..bhi].  No element is junk  *)
(* (isjunk is None); the autojunk heuristic needs len(b) >= 200 and is out   *)
(* of the reach of the lengths modelled.                                     *)

\* length of the common run of a and b that starts at a[i], b[j]
RECURSIVE RunLen(_, _, _, _, _, _)
RunLen(a, b, i, j, ahi, bhi) ==
    IF i > ahi \/ j > bhi THEN 0
    ELSE IF a[i] # b[j] THEN 0
         ELSE 1 + RunLen(a, b, i + 1, j + 1, ahi, bhi)

\* find_longest_match: the longest block; of those the one starting earliest
\* in a; of those the one starting earliest in b.  k = 0 when nothing matches.
find_longest_match(a, b, alo, ahi, blo, bhi) ==
    LET cells == {c \in (alo..ahi) \X (blo..bhi) : a[c[1]] = b[c[2]]}
    IN  IF cells = {} THEN [i |-> alo, j |-> blo, k |-> 0]
        ELSE LET len     == [c \in cells |-> RunLen(a, b, c[1], c[2], ahi, bhi)]
                 k       == CHOOSE n \in {len[c] : c \in cells} :
                                \A c \in cells : len[c] <= n
                 longest == {c \in cells : len[c] = k}
                 i       == CHOOSE x \in {c[1] : c \in longest} :
                                \A c \in longest : x <= c[1]
                 j       == CHOOSE y \in {c[2] : c \in {d \in longest : d[1] = i}} :
                                \A c \in longest : c[1] = i => y <= c[2]
             IN  [i |-> i, j |-> j, k |-> k]

\* get_matching_blocks, summed: the block found, then the same on the pieces
\* to its left and to its right
RECURSIVE matches(_, _, _, _, _, _)
matches(a, b, alo, ahi, blo, bhi) ==
    IF alo > ahi \/ blo > bhi THEN 0
    ELSE LET m == find_longest_match(a, b, alo, ahi, blo, bhi)
         IN  IF m.k = 0 THEN 0
             ELSE m.k + matches(a, b, alo, m.i - 1, blo, m.j - 1)
                      + matches(a, b, m.i + m.k, ahi, m.j + m.k, bhi)

\* round(matcher.ratio() * 100, 2), in hundredths of a percent (10000 is 100.0).
\* ratio() is 2.0 * matches / (len(a) + len(b)), and 1.0 when both are empty.
\* A tie of the rounding needs len(a) + len(b) to be a multiple of 64.
similarity_of(a, b) ==
    LET T == Len(a) + Len(b)
        M == matches(a, b, 1, Len(a), 1, Len(b))
    IN  IF T = 0 THEN 10000
        ELSE (2 * 20000 * M + T) \div (2 * T)

----------------------------------------------------------------------------
(* compare_texts *)

\* [line.strip() for line in text.split('\n') if line.strip()]
nonblank_lines(text) ==
    LET ls  == split_lines(text)
        st  == [i \in 1..Len(ls) |-> strip(ls[i])]
    IN  SelectSeqFrom(st, {i \in 1..Len(st) : st[i] # << >>}, 1)

\* A plausible slip: the line is looked up in the raw text of the other side.
absent_lines_raw(lines, other_text) ==
    SelectSeqFrom(lines,
        {i \in 1..Len(lines) : ~IsSubstring(normalize(lines[i]), other_text)}, 1)

\* A plausible slip: the line itself, not its normalized form, is looked up.
absent_lines_unnormalized(lines, other_text) ==
    SelectSeqFrom(lines,
        {i \in 1..Len(lines) : ~IsSubstring(lines[i], normalize(other_text))}, 1)

\* [line for line in lines if normalize(line) not in normalize(other_text)]
absent_lines(lines, other_text) ==
    SelectSeqFrom(lines,
        {i \in 1..Len(lines) :
            ~IsSubstring(normalize(lines[i]), normalize(other_text))}, 1)

Min(x, y) == IF x <= y THEN x ELSE y

\* A plausible slip: the sample is cut from the list itself, list(lst)[:3].
examples_nodedup(lst) == { SubSeq(lst, 1, Min(ExamplesCap, Len(lst))) }

\* list(set(lst))[:3]: the iteration order of a set of str is not fixed (str
\* hashes are salted per process), so every choice and order of up to 3
\* distinct members can come out.
examples(lst) ==
    LET S == Range(lst)
        n == Min(ExamplesCap, Cardinality(S))
    IN  { e \in [1..n -> S] : \A i, j \in 1..n : i # j => e[i] # e[j] }

\* A plausible slip: the ratio without the factor 2 (matches / total).
similarity_half(original_text_, lib_text_) ==
    LET a == normalize(original_text_)
        b == normalize(lib_text_)
        T == Len(a) + Len(b)
        M == matches(a, b, 1, Len(a), 1, Len(b))
    IN  IF T = 0 THEN 10000 ELSE (20000 * M + T) \div (2 * T)

\* round(SequenceMatcher(None, normalize(original), normalize(lib)).ratio() * 100, 2)
similarity(original_text_, lib_text_) ==
    similarity_of(normalize(original_text_), normalize(lib_text_))

missing_of(original_text_, lib_text_) ==
    absent_lines(nonblank_lines(original_text_), lib_text_)

extra_of(original_text_, lib_text_) ==
    absent_lines(nonblank_lines(lib_text_), original_text_)

\* The dicts compare_texts(original_text, lib_text) can return.
compare_texts(original_text_, lib_text_) ==
    LET missing == missing_of(original_text_, lib_text_)
        extra   == extra_of(original_text_, lib_text_)
    IN  { [ similarity          |-> similarity(original_text_, lib_text_),
            original_length     |-> Len(original_text_),
            lib_length          |-> Len(lib_text_),
            missing_lines_count |-> Len(missing),
            extra_lines_count   |-> Len(extra),
            example_missing     |-> em,
            example_extra       |-> ee ] :
          em \in examples(missing), ee \in examples(extra) }

----------------------------------------------------------------------------
(* extract_text_from_url: the page, the extraction, the retry policy *)

\* @retry(stop=stop_after_attempt(3), wait=wait_exponential(multiplier=1, min=4, max=10))
StopAfterAttempt == 3
WaitMultiplier == 1
WaitMin == 4
WaitMax == 10

Max(x, y) == IF x >= y THEN x ELSE y

\* A plausible slip: the policy without its floor, wait_exponential(
\* multiplier=1, max=10).
wait_exponential_nofloor(n) == Min(WaitMultiplier * (2 ^ (n - 1)), WaitMax)

\* tenacity.wait_exponential.__call__: multiplier * 2 ** (attempt_number - 1),
\* held between min and max
wait_exponential(n) ==
    Max(Max(0, WaitMin), Min(WaitMultiplier * (2 ^ (n - 1)), WaitMax))

\* the word every error string starts with, "Oshibka" (one token per letter)
ErrPrefix == << "O", "sh", "i", "b", "k", "a" >>

\* the tags whose subtrees are decomposed before the content root is looked up
NoiseTags == {"script", "style", "nav", "footer", "iframe", "img", "button"}

\* The parsed page, as far as the extraction looks at it: the text nodes ahead
\* of the body (the title), whether there is a body, and the elements in
\* document order.  An element has its tag, its class, its itemprop, the tag
\* of the element that encloses it, and its text nodes, each under the tag
\* that holds it.
Node(tag, text) == [ tag |-> tag, text |-> text ]
Elem(tag, class, itemprop, inside, nodes) ==
    [ tag |-> tag, class |-> class, itemprop |-> itemprop, inside |-> inside,
      nodes |-> nodes ]

\* the page without a body and without elements
PageBare == [ head |-> << >>, has_body |-> FALSE, elements |-> << >> ]

\* element.decompose() for every text-holding element of a noise tag
decompose(element) ==
    SelectSeqFrom(element, {i \in 1..Len(element) : element[i].tag \notin NoiseTags}, 1)

\* lines 38-40: every element of a noise tag is decomposed, and with it all
\* that it encloses
decompose_all(page) ==
    LET es   == page.elements
        kept == {i \in 1..Len(es) : es[i].tag \notin NoiseTags
                                    /\ es[i].inside \notin NoiseTags}
        left == SelectSeqFrom(es, kept, 1)
    IN  [ head     |-> decompose(page.head),
          has_body |-> page.has_body,
          elements |-> [i \in 1..Len(left) |->
                          [left[i] EXCEPT !.nodes = decompose(left[i].nodes)]] ]

\* name.lower() for the class names of the model
ClassLower(name) ==
    CASE name = "Post-Body"   -> "post-body"
      [] name = "articleBody" -> "articlebody"
      [] OTHER                -> name

\* re.compile(r'(post-body|article-text|entry-content|articleBody)', re.I)
\* searched in a class name (no class name of the model holds one of the
\* words without being it)
class_pattern(name) ==
    ClassLower(name) \in {"post-body", "article-text", "entry-content", "articlebody"}

\* the selectors of the chain `soup.find(..) or soup.find(..) or ...`, in order
SelectorOrder == << "article", "class", "itemprop", "div", "body" >>

\* whether one find of the chain takes the element
selects(selector, e) ==
    CASE selector = "article"  -> e.tag = "article"
      [] selector = "class"    -> class_pattern(e.class)
      [] selector = "itemprop" -> e.itemprop = "articleBody"
      [] selector = "div"      -> e.tag = "div" /\ e.class = "article__text"
      [] OTHER                 -> FALSE

\* soup.find(..): the first element in document order the selector takes, 0
\* for None
soup_find(selector, soup) ==
    LET hits == {i \in 1..Len(soup.elements) : selects(selector, soup.elements[i])}
    IN  IF hits = {} THEN 0 ELSE CHOOSE i \in hits : \A j \in hits : i <= j

\* the text nodes of elements, in document order
RECURSIVE nodes_of(_)
nodes_of(es) == IF es = << >> THEN << >> ELSE es[1].nodes \o nodes_of(Tail(es))

\* lines 43-49: the chain of finds; the body holds every element
article_body(soup) ==
    LET hits == {k \in 1..Len(SelectorOrder) : soup_find(SelectorOrder[k], soup) # 0}
        k    == CHOOSE m \in hits : \A n \in hits : m <= n
    IN  IF hits # {}
        THEN [ found |-> TRUE,
               nodes |-> soup.elements[soup_find(SelectorOrder[k], soup)].nodes ]
        ELSE IF soup.has_body
             THEN [ found |-> TRUE, nodes |-> nodes_of(soup.elements) ]
             ELSE [ found |-> FALSE, nodes |-> << >> ]

\* get_text(separator='\n', strip=True): the stripped, non-empty strings, joined
get_text(element) ==
    LET st == [i \in 1..Len(element) |-> strip(element[i].text)]
    IN  join_lines(SelectSeqFrom(st, {i \in 1..Len(st) : st[i] # << >>}, 1))

\* re.sub(r'\n{2,}', '\n\n', text): a run of two or more newlines becomes two
RECURSIVE SubNewlinesFrom(_, _)
SubNewlinesFrom(s, i) ==
    IF i > Len(s) THEN << >>
    ELSE IF s[i] = NL /\ i > 2 /\ s[i-1] = NL /\ s[i-2] = NL
         THEN SubNewlinesFrom(s, i + 1)
         ELSE << s[i] >> \o SubNewlinesFrom(s, i + 1)

\* A plausible slip: the content root is looked up before the noise elements
\* are decomposed, so a root inside a noise element is taken.
extract_main_text_noisy(page) ==
    LET root == article_body(page)
        text == IF root.found THEN get_text(decompose(root.nodes))
                ELSE get_text(decompose(page.head \o nodes_of(page.elements)))
    IN  strip(SubNewlinesFrom(text, 1))

\* lines 36-53: the text extracted from a page that was fetched
extract_main_text(page) ==
    LET soup == decompose_all(page)
        root == article_body(soup)
        text == IF root.found THEN get_text(root.nodes)
                ELSE get_text(soup.head \o nodes_of(soup.elements))
    IN  strip(SubNewlinesFrom(text, 1))

\* A plausible slip: the failure is left to propagate (no except clause), as
\* the retry decorator expects.
extract_body_raises(resp) ==
    IF resp.ok THEN [ raised |-> FALSE, value |-> extract_main_text(resp.page) ]
    ELSE [ raised |-> TRUE, value |-> resp.error ]

\* the body of extract_text_from_url on one response: every exception of the
\* try block is caught and comes back as the string "Oshibka: <message>"
extract_body(resp) ==
    IF resp.ok THEN [ raised |-> FALSE, value |-> extract_main_text(resp.page) ]
    ELSE [ raised |-> FALSE, value |-> ErrPrefix \o << ":", SP >> \o resp.error ]

\* str(e) of the RetryError tenacity raises when the attempts are used up
RetryErrorText == << "R", "e", "t", "r", "y", "E", "r", "r", "o", "r" >>

----------------------------------------------------------------------------
(* main: the input table *)

\* pandas.read_csv, one field: an empty field is read as NaN, any other field
\* of the model as the str it is
read_csv_cell(field) ==
    IF field = << >> THEN [ isna |-> TRUE, text |-> << >> ]
    ELSE [ isna |-> FALSE, text |-> field ]

read_csv(file) ==
    [ columns |-> file.columns,
      rows    |-> [i \in 1..Len(file.rows) |->
                     [ URL      |-> read_csv_cell(file.rows[i].URL),
                       lib_text |-> read_csv_cell(file.rows[i].lib_text) ]] ]

\* str(cell): str(float('nan')) is 'nan'
py_str(cell) == IF cell.isna THEN << "n", "a", "n" >> ELSE cell.text

\* name.lower() for the column names of the model
ColLower(name) ==
    CASE name = "URL"      -> "url"
      [] name = "Lib_Text" -> "lib_text"
      [] OTHER             -> name

\* all(col.lower() in [c.lower() for c in df_input.columns] for col in ['URL', 'lib_text'])
columns_found(df) ==
    \A col \in {"URL", "lib_text"} : ColLower(col) \in {ColLower(c) : c \in df.columns}

\* row['URL'] and row['lib_text'] raise KeyError unless spelled exactly so
row_keys_exist(df) == {"URL", "lib_text"} \subseteq df.columns

\* A plausible slip: the candidate text is taken without .strip().
row_lib_text_nostrip(cell) == py_str(cell)

\* str(row['lib_text']).strip()
row_lib_text(cell) == strip(py_str(cell))

\* str(row['URL']).strip()
row_url(cell) == strip(py_str(cell))

----------------------------------------------------------------------------
(* Bounds of the inputs *)

\* the longest string handed to normalize
MaxStrLen == 5
\* the lines of both texts handed to compare_texts, together
MaxTotalLines == 4
\* the elements of a page handed to the extraction
MaxElements == 3
\* the largest missing_lines_count of a record handed to the reports
MaxMissing == 31
\* the largest attempt number handed to the wait policy
MaxAttemptNumber == 14

Chars == {"a", "A", SP, NL, "\t"}
Strings == UNION { [1..n -> Chars] : n \in 0..MaxStrLen }

\* the lines the texts are made of: blank, in upper case, to be stripped, of
\* two words, sharing no letter with the others
Lines == { << >>, <<"A">>, <<SP, "b">>, <<"a", SP, "b">>, <<"c">> }
LineSeqs(n) == UNION { [1..m -> Lines] : m \in 0..n }

\* values of the variables a harness does not use
NoComparison == [ similarity |-> -1 ]
NoNorm == [ calls |-> 0, prev |-> << >>, out |-> << >> ]
NoInput == [ readable |-> FALSE, columns |-> {}, rows |-> << >> ]
NoFrame == [ columns |-> {}, rows |-> << >> ]
NoResponse == [ ok |-> FALSE, page |-> PageBare, error |-> << >> ]

MainIdle ==
    /\ input_csv = NoInput
    /\ df_input = NoFrame
    /\ idx = 0
    /\ url = << >>
    /\ results = << >>
    /\ attempt_number = 0
    /\ gets = 0
    /\ all_failed = FALSE
    /\ waits = << >>
    /\ reports = << >>
    /\ processed = << >>
    /\ skipped = << >>

MainUnchanged ==
    UNCHANGED << input_csv, df_input, idx, url, results, attempt_number,
                 gets, all_failed, waits, reports, processed, skipped >>

----------------------------------------------------------------------------
(* normalize, applied to a string and then to its own result *)

InitNormalize ==
    /\ pc = "normalize"
    /\ original_text \in Strings
    /\ lib_text = << >>
    /\ comparison = NoComparison
    /\ norm = [ calls |-> 0, prev |-> << >>, out |-> original_text ]
    /\ response = NoResponse
    /\ MainIdle

ApplyNormalize ==
    /\ pc = "normalize"
    /\ norm.calls < 2
    /\ norm' = [ calls |-> norm.calls + 1, prev |-> norm.out, out |-> normalize(norm.out) ]
    /\ UNCHANGED << pc, original_text, lib_text, comparison, response >>
    /\ MainUnchanged

NextNormalize == ApplyNormalize

SpecNormalize == InitNormalize /\ [][NextNormalize]_vars

----------------------------------------------------------------------------
(* compare_texts, applied to a pair of texts *)

\* the lines without the i-th
DropLine(x, i) == SubSeq(x, 1, i - 1) \o SubSeq(x, i + 1, Len(x))

\* the pairs of texts: of MaxTotalLines lines together, a text and itself, a
\* text (of fewer than MaxTotalLines lines) and the same text with one line
\* deleted
InitCompare ==
    /\ pc = "compare"
    /\ \E x \in LineSeqs(MaxTotalLines) :
         \E y \in LineSeqs(MaxTotalLines - Len(x)) \cup {x}
                   \cup {DropLine(x, i) :
                         i \in IF Len(x) < MaxTotalLines THEN 1..Len(x) ELSE {}} :
            /\ original_text = join_lines(x)
            /\ lib_text = join_lines(y)
    /\ comparison = NoComparison
    /\ norm = NoNorm
    /\ response = NoResponse
    /\ MainIdle

CallCompare ==
    /\ pc = "compare"
    /\ comparison' \in compare_texts(original_text, lib_text)
    /\ pc' = "compared"
    /\ UNCHANGED << original_text, lib_text, norm, response >>
    /\ MainUnchanged

NextCompare == CallCompare

SpecCompare == InitCompare /\ [][NextCompare]_vars

----------------------------------------------------------------------------
(* extract_text_from_url, applied to a page that was fetched *)

\* the elements the pages are made of, each with a text of its own: one per
\* find of the chain, one that no find takes, each of them in the body or in
\* the navigation; a footer whose class the pattern takes; an element whose
\* itemprop differs from articleBody in case only
ElemKinds ==
    { Elem("article", "", "", w,
           << Node("p", << "a" >>), Node("script", << "x" >>) >>) : w \in {"body", "nav"} }
    \cup { Elem("section", "Post-Body", "", w, << Node("p", << "b" >>) >>) : w \in {"body", "nav"} }
    \cup { Elem("span", "", "articleBody", w, << Node("span", << "c" >>) >>) : w \in {"body", "nav"} }
    \cup { Elem("div", "article__text", "", w, << Node("div", << "d" >>) >>) : w \in {"body", "nav"} }
    \cup { Elem("p", "sidebar", "", w, << Node("p", << "e" >>) >>) : w \in {"body", "nav"} }
    \cup { Elem("footer", "entry-content", "", "body", << Node("footer", << "f" >>) >>),
           Elem("span", "", "articlebody", "body", << Node("span", << "g" >>) >>) }

HarnessPages ==
    { [ head |-> << Node("title", << "t" >>) >>, has_body |-> hb, elements |-> es ] :
      hb \in BOOLEAN, es \in UNION { [1..n -> ElemKinds] : n \in 0..MaxElements } }

InitExtract ==
    /\ pc = "extract"
    /\ response \in { [ ok |-> TRUE, page |-> p, error |-> << >> ] : p \in HarnessPages }
    /\ original_text = << >>
    /\ lib_text = << >>
    /\ comparison = NoComparison
    /\ norm = NoNorm
    /\ MainIdle

CallExtract ==
    /\ pc = "extract"
    /\ LET out == extract_body(response) IN
        /\ original_text' = out.value
        /\ pc' = IF out.raised THEN "raised" ELSE "extracted"
    /\ UNCHANGED << lib_text, comparison, norm, response >>
    /\ MainUnchanged

NextExtract == CallExtract

SpecExtract == InitExtract /\ [][NextExtract]_vars

----------------------------------------------------------------------------
(* the wait policy of the retry decorator, applied to successive attempts *)

\* tenacity asks the policy for the wait after attempt attempt_number and
\* goes on to the next attempt; the harness starts at any attempt number
InitPolicy ==
    /\ pc = "policy"
    /\ attempt_number \in 1..MaxAttemptNumber
    /\ waits = << >>
    /\ input_csv = NoInput
    /\ df_input = NoFrame
    /\ idx = 0
    /\ url = << >>
    /\ lib_text = << >>
    /\ original_text = << >>
    /\ comparison = NoComparison
    /\ results = << >>
    /\ gets = 0
    /\ all_failed = FALSE
    /\ reports = << >>
    /\ processed = << >>
    /\ skipped = << >>
    /\ norm = NoNorm
    /\ response = NoResponse

NextWait ==
    /\ pc = "policy"
    /\ attempt_number <= MaxAttemptNumber
    /\ waits' = Append(waits, wait_exponential(attempt_number))
    /\ attempt_number' = attempt_number + 1
    /\ UNCHANGED << pc, input_csv, df_input, idx, url, lib_text, original_text,
                    comparison, results, gets, all_failed, reports, processed,
                    skipped, norm, response >>

NextPolicy == NextWait

SpecPolicy == InitPolicy /\ [][NextPolicy]_vars

----------------------------------------------------------------------------
(* main: the run.  pc is "start", "loop1" (lines 445-483), "fetch1" (the call  *)
(* of line 454 is running), "loop2" (lines 496-532), "fetch2" (the call of     *)
(* line 506), "done" (main returned from its last line), "aborted" (main       *)
(* returned early: line 441 or line 492), "crashed" (an exception left main).  *)

\* the rows of the input file
MaxRows == 2

\* the raw lib_text fields: empty, blank, a text of two lines around a blank one
LibFields == { << >>, << SP >>, << "A", NL, NL, SP, "b" >> }

\* the URL field of row i (every row has a URL of its own)
UrlField(i) == << "u", ToString(i) >>

Headers == { {"URL", "lib_text"}, {"url", "Lib_Text"}, {"URL", "text"} }

InputFiles ==
    { NoInput } \cup
    { [ readable |-> TRUE, columns |-> h,
        rows |-> [i \in 1..n |-> [ URL |-> UrlField(i), lib_text |-> f[i] ]] ] :
      h \in Headers, n \in 0..MaxRows, f \in [1..MaxRows -> LibFields] }

\* pages the web can answer with (PageBare is one): an article next to the
\* navigation, and a page whose text begins with the error word
PageArticle ==
    [ head     |-> << Node("title", << "c" >>) >>,
      has_body |-> TRUE,
      elements |-> << Elem("nav", "", "", "body", << Node("nav", << "c" >>) >>),
                      Elem("article", "", "", "body",
                           << Node("p", << "c", NL, NL, NL, "A", SP, "b", SP >>),
                              Node("script", << "c" >>),
                              Node("p", << SP >>) >>) >> ]
PageOshibka ==
    [ head     |-> << >>,
      has_body |-> TRUE,
      elements |-> << Elem("h1", "", "", "body",
                           << Node("h1", ErrPrefix \o << SP, "c" >>) >>) >> ]

Pages == { PageBare, PageArticle, PageOshibka }

\* what one requests.get + raise_for_status can come to: a page, or an
\* exception (transport error, timeout, HTTP status) with its message
Responses ==
    { [ ok |-> TRUE, page |-> p, error |-> << >> ] : p \in Pages } \cup
    { [ ok |-> FALSE, page |-> PageBare, error |-> << "4", "0", "4" >> ] }

Init ==
    /\ pc = "start"
    /\ input_csv \in InputFiles
    /\ df_input = NoFrame
    /\ idx = 0
    /\ url = << >>
    /\ lib_text = << >>
    /\ original_text = << >>
    /\ comparison = NoComparison
    /\ results = << >>
    /\ attempt_number = 0
    /\ gets = 0
    /\ all_failed = FALSE
    /\ waits = << >>
    /\ reports = << >>
    /\ processed = << >>
    /\ skipped = << >>
    /\ norm = NoNorm
    /\ response = NoResponse

\* lines 435-443: read the file, check the columns
LoadInput ==
    /\ pc = "start"
    /\ IF ~input_csv.readable
       THEN /\ pc' = "aborted"                       \* read_csv raised: line 490
            /\ UNCHANGED << df_input, idx >>
       ELSE /\ df_input' = read_csv(input_csv)
            /\ IF columns_found(df_input')
               THEN pc' = "loop1" /\ idx' = 1
               ELSE pc' = "aborted" /\ idx' = idx     \* line 441
    /\ UNCHANGED << input_csv, url, lib_text, original_text, comparison, results,
                    attempt_number, gets, all_failed, waits, reports, processed,
                    skipped, norm, response >>

LoopOf(p) == IF p \in {"loop1", "fetch1"} THEN 1 ELSE 2

AtRow(p) == pc = p /\ idx <= Len(df_input.rows)

\* row['URL'] of lines 446 / 497 raises KeyError.  In the first loop the outer
\* except of line 490 takes it; the second loop is not in any try.
RowKeyError ==
    /\ pc \in {"loop1", "loop2"}
    /\ idx <= Len(df_input.rows)
    /\ ~row_keys_exist(df_input)
    /\ pc' = IF pc = "loop1" THEN "aborted" ELSE "crashed"
    /\ UNCHANGED << input_csv, df_input, idx, url, lib_text, original_text, comparison,
                    results, attempt_number, gets, all_failed, waits, reports,
                    processed, skipped, norm, response >>

\* lines 446-451 / 497-504: the row's lib_text is empty, the row is skipped
SkipRow(p) ==
    /\ AtRow(p)
    /\ row_keys_exist(df_input)
    /\ url' = row_url(df_input.rows[idx].URL)
    /\ lib_text' = row_lib_text(df_input.rows[idx].lib_text)
    /\ lib_text' = << >>
    /\ skipped' = Append(skipped, [ loop |-> LoopOf(p), row |-> idx ])
    /\ idx' = idx + 1
    /\ UNCHANGED << pc, input_csv, df_input, original_text, comparison, results,
                    attempt_number, gets, all_failed, waits, reports, processed, norm, response >>

\* lines 446-454 / 497-506: the row has a lib_text, extract_text_from_url is called
StartRow(p, fetching) ==
    /\ AtRow(p)
    /\ row_keys_exist(df_input)
    /\ url' = row_url(df_input.rows[idx].URL)
    /\ lib_text' = row_lib_text(df_input.rows[idx].lib_text)
    /\ lib_text' # << >>
    /\ processed' = Append(processed,
                            [ loop |-> LoopOf(p), row |-> idx, fetch_failed |-> FALSE ])
    /\ attempt_number' = 1
    /\ gets' = 0
    /\ all_failed' = TRUE
    /\ waits' = << >>
    /\ pc' = fetching
    /\ UNCHANGED << input_csv, df_input, idx, original_text, comparison, results,
                    reports, skipped, norm, response >>

\* A plausible slip: the record is tagged with the word the metadata counts
\* it under ("failed").
ErrorRecord_failed(u, message) == [ url |-> u, status |-> "failed", error |-> message ]

\* lines 457-461 and 479-483: the record of a row that failed
ErrorRecord(u, message) == [ url |-> u, status |-> "error", error |-> message ]

\* A plausible slip: the record is put in front of the list.
prepend_record(rs, r) == << r >> \o rs

\* results.append(record)
append_record(rs, r) == Append(rs, r)

\* ' | '.join(list)
RECURSIVE join_bar(_)
join_bar(ls) ==
    IF ls = << >> THEN << >>
    ELSE IF Len(ls) = 1 THEN ls[1]
         ELSE ls[1] \o << SP, "|", SP >> \o join_bar(Tail(ls))

\* lines 465-475 (the samples as lists) and 519-529 (the samples joined)
SuccessRecord(u, c, loop) ==
    [ url                 |-> u,
      similarity          |-> c.similarity,
      original_length     |-> c.original_length,
      lib_length          |-> c.lib_length,
      missing_lines_count |-> c.missing_lines_count,
      extra_lines_count   |-> c.extra_lines_count,
      example_missing     |-> IF loop = 1 THEN c.example_missing
                              ELSE join_bar(c.example_missing),
      example_extra       |-> IF loop = 1 THEN c.example_extra
                              ELSE join_bar(c.example_extra),
      status              |-> "success" ]

\* One attempt of the running call of extract_text_from_url under the retry
\* decorator: the GET, the body of the function, then tenacity's decision
\* (retry after a wait, give up with RetryError, or hand the value back), and
\* on a value the rest of the loop body: lines 456-475 / 508-532.
Attempt(fetching, looping) ==
    /\ pc = fetching
    /\ \E resp \in Responses :
        LET out == extract_body(resp) IN
        /\ response' = resp
        /\ gets' = gets + 1
        /\ all_failed' = (all_failed /\ ~resp.ok)
        /\ IF out.raised /\ attempt_number < StopAfterAttempt
           THEN \* tenacity sleeps and calls the function again
                /\ attempt_number' = attempt_number + 1
                /\ waits' = Append(waits, wait_exponential(attempt_number))
                /\ UNCHANGED << pc, idx, original_text, comparison, results, processed >>
           ELSE IF out.raised
           THEN \* RetryError: caught at line 477 in the first loop only
                /\ IF LoopOf(fetching) = 1
                   THEN /\ results' = append_record(results, ErrorRecord(url, RetryErrorText))
                        /\ idx' = idx + 1
                        /\ pc' = looping
                   ELSE /\ pc' = "crashed"
                        /\ UNCHANGED << idx, results >>
                /\ processed' = [processed EXCEPT ![Len(processed)].fetch_failed = all_failed']
                /\ UNCHANGED << attempt_number, waits, original_text, comparison >>
           ELSE /\ original_text' = out.value
                /\ IF startswith(out.value, ErrPrefix)
                   THEN /\ results' = append_record(results, ErrorRecord(url, out.value))
                        /\ comparison' = comparison
                   ELSE \E c \in compare_texts(out.value, lib_text) :
                        /\ comparison' = c
                        /\ results' = append_record(results,
                                             SuccessRecord(url, c, LoopOf(fetching)))
                /\ processed' = [processed EXCEPT ![Len(processed)].fetch_failed = all_failed']
                /\ idx' = idx + 1
                /\ pc' = looping
                /\ UNCHANGED << attempt_number, waits >>
    /\ UNCHANGED << input_csv, df_input, url, lib_text, reports, skipped, norm >>

CountStatus(rs, st) == Cardinality({k \in 1..Len(rs) : rs[k].status = st})

\* a percentage on the scale of similarity (hundredths of a percent)
Percent(x) == x * 100

\* example[:150] followed by '...' when the example is longer
truncate_example(ex) ==
    IF Len(ex) > 150 THEN SubSeq(ex, 1, 150) \o << ".", ".", "." >> ELSE ex

\* lines 88-95: the verdict on the similarity
similarity_verdict(sim) ==
    IF sim > Percent(80) THEN "high"
    ELSE IF sim > Percent(50) THEN "moderate"
    ELSE "low"

\* generate_ai_analysis: the verdict, the two sections of samples (a section
\* is there when its count is positive), the conclusion
generate_ai_analysis(r) ==
    LET section(count, ex) ==
            IF count > 0
            THEN << [ count |-> count,
                      examples |-> [k \in 1..Min(3, Len(ex)) |-> truncate_example(ex[k])] ] >>
            ELSE << >>
    IN  [ verdict    |-> similarity_verdict(r.similarity),
          missing    |-> section(r.missing_lines_count, r.example_missing),
          extra      |-> section(r.extra_lines_count, r.example_extra),
          conclusion |-> IF r.missing_lines_count > r.extra_lines_count THEN "missing"
                         ELSE IF r.extra_lines_count > r.missing_lines_count THEN "extra"
                         ELSE "both" ]

\* lines 142-164: the entry of one record in the JSON report
article_data(r) ==
    IF r.status = "success"
    THEN [ url |-> r.url, status |-> r.status, similarity |-> r.similarity,
           original |-> r.original_length, lib |-> r.lib_length,
           difference |-> IF r.original_length >= r.lib_length
                          THEN r.original_length - r.lib_length
                          ELSE r.lib_length - r.original_length,
           missing_lines |-> r.missing_lines_count,
           extra_lines |-> r.extra_lines_count,
           example_missing |-> r.example_missing,
           example_extra |-> r.example_extra,
           ai_analysis |-> generate_ai_analysis(r) ]
    ELSE [ url |-> r.url, status |-> r.status, error |-> r.error ]

\* save_results: the metadata of the JSON report, and the articles it lists
JsonReport(rs) ==
    [ kind |-> "json", total |-> Len(rs), successful |-> CountStatus(rs, "success"),
      failed |-> CountStatus(rs, "error"), articles |-> rs,
      entries |-> [k \in 1..Len(rs) |-> article_data(rs[k])] ]

CsvReport(rs) == [ kind |-> "csv", articles |-> rs ]

\* A plausible slip: the severity looks at the count only.
missing_importance_by_count(r) ==
    IF r.missing_lines_count > 30 THEN "High"
    ELSE IF r.missing_lines_count > 10 THEN "Medium"
    ELSE "Low"

\* lines 219-223: the severity of the omissions of a success record; the
\* second `if` overwrites what the first one set
missing_importance(r) ==
    LET first == IF r.missing_lines_count > 10 THEN "Medium" ELSE "Low"
    IN  IF \/ r.missing_lines_count > 30
           \/ \E k \in 1..Len(r.example_missing) : Len(r.example_missing[k]) > 100
        THEN "High"
        ELSE first

\* lines 208-276: the row of one record on the summary sheet
summary_row(r) ==
    IF r.status = "success"
    THEN [ url |-> r.url, status |-> r.status, similarity |-> r.similarity,
           missing_lines |-> r.missing_lines_count,
           extra_lines |-> r.extra_lines_count,
           missing_importance |-> missing_importance(r) ]
    ELSE [ url |-> r.url, status |-> r.status, error |-> r.error ]

\* generate_comprehensive_report: the summary sheet and the statistics
XlsxReport(rs) ==
    [ kind |-> "xlsx", total |-> Len(rs), successful |-> CountStatus(rs, "success"),
      failed |-> CountStatus(rs, "error"), articles |-> rs,
      summary |-> [k \in 1..Len(rs) |-> summary_row(rs[k])] ]

HtmlReport(rs) ==
    [ kind |-> "html", total |-> Len(rs), successful |-> CountStatus(rs, "success"),
      failed |-> CountStatus(rs, "error"), articles |-> rs ]

\* lines 486-488, after the first loop: save_results, then
\* generate_comprehensive_report, which divides by len(results) at line 380
\* (ZeroDivisionError on an empty list, taken by line 490), then the HTML report
WriteReports ==
    /\ pc = "loop1"
    /\ idx > Len(df_input.rows)
    /\ IF Len(results) = 0
       THEN /\ reports' = reports \o << JsonReport(results), CsvReport(results) >>
            /\ pc' = "aborted"
            /\ idx' = idx
       ELSE /\ reports' = reports \o << JsonReport(results), CsvReport(results),
                                        XlsxReport(results), HtmlReport(results) >>
            /\ pc' = "loop2"
            /\ idx' = 1
    /\ UNCHANGED << input_csv, df_input, url, lib_text, original_text, comparison,
                    results, attempt_number, gets, all_failed, waits, processed,
                    skipped, norm, response >>

\* the second loop ran out of rows: main returns
Finish ==
    /\ pc = "loop2"
    /\ idx > Len(df_input.rows)
    /\ pc' = "done"
    /\ UNCHANGED << input_csv, df_input, idx, url, lib_text, original_text, comparison,
                    results, attempt_number, gets, all_failed, waits, reports,
                    processed, skipped, norm, response >>

SkipRow1 == SkipRow("loop1")
StartRow1 == StartRow("loop1", "fetch1")
Attempt1 == Attempt("fetch1", "loop1")
SkipRow2 == SkipRow("loop2")
StartRow2 == StartRow("loop2", "fetch2")
Attempt2 == Attempt("fetch2", "loop2")

Next ==
    \/ LoadInput
    \/ RowKeyError
    \/ SkipRow1
    \/ StartRow1
    \/ Attempt1
    \/ WriteReports
    \/ SkipRow2
    \/ StartRow2
    \/ Attempt2
    \/ Finish

Spec == Init /\ [][Next]_vars

----------------------------------------------------------------------------
(* the report writers, applied to a list of one success record *)

\* a sample of n characters
ExampleOf(n) == [i \in 1..n |-> "a"]

\* the lists of samples: up to ExamplesCap distinct samples of 1, 100 and 101
\* characters, none unless lines were counted
SampleLists(count) ==
    { ls \in { << >>, << ExampleOf(1) >>, << ExampleOf(100) >>, << ExampleOf(101) >>,
               << ExampleOf(1), ExampleOf(100) >>, << ExampleOf(1), ExampleOf(101) >>,
               << ExampleOf(100), ExampleOf(101) >>,
               << ExampleOf(1), ExampleOf(100), ExampleOf(101) >> } :
      /\ Len(ls) <= Min(ExamplesCap, count)
      /\ count > 0 => Len(ls) >= 1 }

\* the similarities next to the two thresholds of the verdict
BandEdges ==
    { Percent(50) - 1, Percent(50), Percent(50) + 1,
      Percent(80) - 1, Percent(80), Percent(80) + 1 }

Outcome(s, m, x, em, ex) ==
    SuccessRecord(UrlField(1),
                  [ similarity |-> s, original_length |-> 3, lib_length |-> 1,
                    missing_lines_count |-> m, extra_lines_count |-> x,
                    example_missing |-> em, example_extra |-> ex ], 1)

\* every similarity with no line counted, and around the thresholds every
\* count of missing lines with every list of samples
Outcomes ==
    { Outcome(s, 0, 0, << >>, << >>) : s \in 0..Percent(100) }
    \cup UNION { { Outcome(s, m, x, em, IF x = 0 THEN << >> ELSE << ExampleOf(1) >>) :
                   s \in BandEdges, x \in {0, 1}, em \in SampleLists(m) } :
                 m \in 0..MaxMissing }

InitReport ==
    /\ pc = "report"
    /\ \E r \in Outcomes : results = << r >>
    /\ reports = << >>
    /\ input_csv = NoInput
    /\ df_input = NoFrame
    /\ idx = 0
    /\ url = << >>
    /\ lib_text = << >>
    /\ original_text = << >>
    /\ comparison = NoComparison
    /\ attempt_number = 0
    /\ gets = 0
    /\ all_failed = FALSE
    /\ waits = << >>
    /\ processed = << >>
    /\ skipped = << >>
    /\ norm = NoNorm
    /\ response = NoResponse

\* lines 486-488 on that list
CallReports ==
    /\ pc = "report"
    /\ reports' = << JsonReport(results), CsvReport(results),
                     XlsxReport(results), HtmlReport(results) >>
    /\ pc' = "reported"
    /\ UNCHANGED << input_csv, df_input, idx, url, lib_text, original_text, comparison,
                    results, attempt_number, gets, all_failed, waits, processed,
                    skipped, norm, response >>

NextReport == CallReports

SpecReport == InitReport /\ [][NextReport]_vars

----------------------------------------------------------------------------
(* Claims about normalize (checked under SpecNormalize) *)

NoEdgeOrDoubleSpace(s) ==
    /\ s # << >> => ~IsSpace(s[1]) /\ ~IsSpace(s[Len(s)])
    /\ \A i \in 1..(Len(s) - 1) : ~(IsSpace(s[i]) /\ IsSpace(s[i + 1]))

\* C6: normalize is idempotent, normalize(normalize(s)) = normalize(s) for every
\* string s, and its result has no leading or trailing whitespace and no two
\* adjacent whitespace characters.
C6_NormalizeIdempotent ==
    /\ norm.calls >= 1 => NoEdgeOrDoubleSpace(norm.out)
    /\ norm.calls = 2 => norm.out = norm.prev

\* C6 witness: normalize was applied twice to a string with leading whitespace,
\* an upper-case letter and an inner run of whitespace holding a newline.
C6_Witness ==
    /\ pc = "normalize"
    /\ norm.calls = 2
    /\ original_text # << >>
    /\ IsSpace(original_text[1])
    /\ "A" \in Range(original_text)
    /\ SP \in Range(norm.out)
    /\ \E i \in 2..(Len(original_text) - 1) :
          original_text[i] = NL /\ IsSpace(original_text[i + 1])

----------------------------------------------------------------------------
(* Claims about compare_texts (checked under SpecCompare) *)

\* C3: the similarity of compare_texts is symmetric: compare_texts(A, B) and
\* compare_texts(B, A) report the same similarity.
C3_SimilaritySymmetric ==
    pc = "compared" => comparison.similarity = similarity(lib_text, original_text)

\* C5: for every text A whose normalized form is non-empty, compare_texts(A, A)
\* reports similarity 100.0.
C5_IdentityIs100 ==
    (pc = "compared" /\ original_text = lib_text /\ normalize(original_text) # << >>)
        => comparison.similarity = 10000

\* C5 witness: a text of several non-blank lines was compared with itself.
C5_Witness ==
    /\ pc = "compared"
    /\ original_text = lib_text
    /\ Len(nonblank_lines(original_text)) >= 2
    /\ comparison.similarity = 10000

NormalizedAbsent(line, text) == ~IsSubstring(normalize(line), normalize(text))

\* C7: every string of example_missing has a normalized form that is no
\* substring of the normalized candidate, and every string of example_extra has
\* a normalized form that is no substring of the normalized original.
C7_ExamplesDisjoint ==
    pc = "compared" =>
        /\ \A i \in DOMAIN comparison.example_missing :
              NormalizedAbsent(comparison.example_missing[i], lib_text)
        /\ \A i \in DOMAIN comparison.example_extra :
              NormalizedAbsent(comparison.example_extra[i], original_text)

\* C7 witness: both sample lists are non-empty while some original line is
\* present in the candidate (so the classification did decide something).
C7_Witness ==
    /\ pc = "compared"
    /\ comparison.example_missing # << >>
    /\ comparison.example_extra # << >>
    /\ comparison.missing_lines_count < Len(nonblank_lines(original_text))

\* the positions of the non-blank lines of `text` whose normalized form is
\* absent from the normalized `other`
AbsentPositions(text, other) ==
    LET ls == nonblank_lines(text)
    IN  {i \in 1..Len(ls) : NormalizedAbsent(ls[i], other)}

AbsentLineSet(text, other) ==
    LET ls == nonblank_lines(text)
    IN  {ls[i] : i \in AbsentPositions(text, other)}

DistinctSample(sample, count, text, other) ==
    LET absent == AbsentLineSet(text, other)
    IN  /\ count = Cardinality(AbsentPositions(text, other))
        /\ Len(sample) = Min(3, Cardinality(absent))
        /\ \A i \in DOMAIN sample : sample[i] \in absent
        /\ \A i, j \in DOMAIN sample : i # j => sample[i] # sample[j]

\* C8: missing_lines_count (extra_lines_count) is the length of the list of
\* missing (extra) lines before deduplication, a line repeated k times counting
\* k times, while example_missing (example_extra) holds min(3, number of
\* distinct missing lines) pairwise distinct strings, each a member of the list.
C8_CountsAndSamples ==
    pc = "compared" =>
        /\ DistinctSample(comparison.example_missing, comparison.missing_lines_count,
                          original_text, lib_text)
        /\ DistinctSample(comparison.example_extra, comparison.extra_lines_count,
                          lib_text, original_text)

\* C8 witness: a missing line is repeated, so the count exceeds the number of
\* distinct missing lines, all of which are in the sample.
C8_Witness ==
    /\ pc = "compared"
    /\ comparison.missing_lines_count = 3
    /\ Len(comparison.example_missing) = 2

\* C8, the cap: four distinct lines are missing and three of them are sampled.
C8_WitnessCap ==
    /\ pc = "compared"
    /\ comparison.missing_lines_count = 4
    /\ Cardinality(AbsentLineSet(original_text, lib_text)) = 4
    /\ Len(comparison.example_missing) = 3

\* the candidate's lines are the original's with line i deleted
LineDeleted(i) ==
    LET x == split_lines(original_text)
    IN  i \in 1..Len(x) /\ split_lines(lib_text) = DropLine(x, i)

\* C16: a line counts as missing (extra) when its normalized form is not
\* contained in the normalized text of the other side: when every non-blank
\* trimmed line of the candidate is a line of the original no line is extra,
\* and the other way round no line is missing; a text compared with itself has
\* no missing and no extra line; when the candidate is the original with one
\* line deleted, at most that line is missing, and it is not when the
\* candidate still contains it.
C16_LinesByContainment ==
    pc = "compared" =>
        LET xs == nonblank_lines(original_text)
            ys == nonblank_lines(lib_text)
            x  == split_lines(original_text)
        IN  /\ Range(ys) \subseteq Range(xs) => comparison.extra_lines_count = 0
            /\ Range(xs) \subseteq Range(ys) => comparison.missing_lines_count = 0
            /\ original_text = lib_text =>
                  /\ comparison.missing_lines_count = 0
                  /\ comparison.extra_lines_count = 0
            /\ \A i \in 1..Len(x) :
                  LineDeleted(i) =>
                      /\ comparison.extra_lines_count = 0
                      /\ Range(comparison.example_missing) \subseteq {strip(x[i])}
                      /\ IsSubstring(normalize(x[i]), normalize(lib_text)) =>
                            comparison.missing_lines_count = 0

\* a line was deleted from a text of three lines and is the one missing line
C16_Witness ==
    /\ pc = "compared"
    /\ Len(split_lines(original_text)) = 3
    /\ LineDeleted(2)
    /\ comparison.missing_lines_count = 1
    /\ comparison.extra_lines_count = 0

\* the deleted line is still contained in a longer line and is not missing
C16_WitnessContained ==
    /\ pc = "compared"
    /\ \E i \in 1..Len(split_lines(original_text)) :
          /\ LineDeleted(i)
          /\ strip(split_lines(original_text)[i]) # << >>
          /\ strip(split_lines(original_text)[i]) \notin Range(nonblank_lines(lib_text))
    /\ comparison.missing_lines_count = 0

----------------------------------------------------------------------------
(* Claims about the run of main (checked under Spec) *)

Last(q) == q[Len(q)]

\* no call of extract_text_from_url is running
NoCallRunning == pc \notin {"fetch1", "fetch2"}

\* the calls of extract_text_from_url that have returned or raised
CallsEnded == IF NoCallRunning THEN Len(processed) ELSE Len(processed) - 1

\* the URL main uses for row i
UrlOfRow(i) == row_url(df_input.rows[i].URL)

\* C1: for a URL whose fetch fails on every attempt, extract_text_from_url makes
\* exactly 3 HTTP GET attempts before the terminal fetch error is produced.
C1_ThreeAttemptsOnFailure ==
    (NoCallRunning /\ gets > 0 /\ all_failed) => gets = 3

\* C2: every error raised while fetching, extracting or comparing a row's URL
\* becomes a record with status 'error' and a message, and the loop goes on
\* with the next row: no such error leaves extract_text_from_url or main, and a
\* run that reaches the end of main has handled every row in both loops.
C2_ErrorsBecomeRecords ==
    /\ pc # "crashed"
    /\ Len(results) = CallsEnded
    /\ \A k \in 1..Len(results) :
          processed[k].fetch_failed =>
              /\ results[k].status = "error"
              /\ results[k].error # << >>
              /\ results[k].url = UrlOfRow(processed[k].row)
    /\ pc = "done" =>
          \A l \in {1, 2}, i \in 1..Len(df_input.rows) :
              \E e \in Range(processed) \cup Range(skipped) : e.loop = l /\ e.row = i

\* C2 witness: the fetch of a row failed in each loop, its error records are in
\* the results, later rows were handled and main returned.
C2_Witness ==
    /\ pc = "done"
    /\ Len(df_input.rows) = 2
    /\ \E j, k \in 1..Len(processed) :
          /\ processed[j].loop = 1 /\ processed[j].row = 1 /\ processed[j].fetch_failed
          /\ processed[k].loop = 2 /\ processed[k].row = 1 /\ processed[k].fetch_failed
          /\ results[j].status = "error"
          /\ results[k].status = "error"
    /\ Last(results).status = "success"

\* the row's raw lib_text field is one main does not skip
RowKept(i) == row_lib_text(df_input.rows[i].lib_text) # << >>

\* C4: over the whole run of main every input row that is not skipped yields
\* exactly one record in the result collection.
C4_OneRecordPerRow ==
    pc = "done" =>
        \A i \in 1..Len(df_input.rows) :
            RowKept(i) =>
                Cardinality({k \in 1..Len(results) : results[k].url = UrlOfRow(i)}) = 1

\* the comparison of the row just handled is the one in `comparison`
JustCompared ==
    /\ pc \in {"loop1", "loop2"}
    /\ processed # << >>
    /\ Last(processed).loop = LoopOf(pc)
    /\ Last(processed).row = idx - 1
    /\ Last(results).status = "success"

\* the lines of a text that hold a character that is no whitespace
NonBlankLineCount(text) ==
    LET ls == split_lines(text)
    IN  Cardinality({i \in 1..Len(ls) : \E j \in 1..Len(ls[i]) : ~IsSpace(ls[i][j])})

C10_EmptyCandidateSkipped ==
    \A k \in 1..Len(processed) : input_csv.rows[processed[k].row].lib_text # << >>

\* the first loop of main is over, or main has ended
FirstLoopOver == pc \in {"loop2", "fetch2", "done", "aborted", "crashed"}

\* the kinds of the reports written so far
ReportKinds == {reports[k].kind : k \in 1..Len(reports)}

\* C14: only a failure to load the input halts main without the reports: when
\* the input loads and has the columns URL and lib_text (in any case), the
\* first loop handles every row and the JSON, CSV, spreadsheet and HTML reports
\* are all written, also when every row failed or every row was skipped.
C14_OnlyLoadFailureHalts ==
    (FirstLoopOver /\ input_csv.readable /\ columns_found(df_input)) =>
        /\ \A i \in 1..Len(df_input.rows) :
              \E e \in Range(processed) \cup Range(skipped) : e.loop = 1 /\ e.row = i
        /\ {"json", "csv", "xlsx", "html"} \subseteq ReportKinds

\* C17: a record has status 'error' exactly when the fetch or the extraction
\* of its row raised; a row whose fetch and extraction succeeded has a
\* 'success' record whatever the extracted text is.
C17_ErrorIffRaised ==
    \A k \in 1..Len(results) :
        results[k].status = "error" <=> processed[k].fetch_failed

SuccessFields ==
    { "url", "similarity", "original_length", "lib_length", "missing_lines_count",
      "extra_lines_count", "example_missing", "example_extra", "status" }
ErrorFields == { "url", "status", "error" }

\* C18: every record handed to a report has status 'success' or 'error'; a
\* success record has every outcome field and no error message, an error
\* record has an error message and no outcome field; the counts of the JSON
\* metadata, of the spreadsheet and of the HTML header add up: successful +
\* failed = total.
C18_RecordShapes ==
    \A k \in 1..Len(reports) :
        LET rs == reports[k].articles IN
        /\ \A j \in 1..Len(rs) :
              /\ rs[j].status \in {"success", "error"}
              /\ rs[j].status = "success" => DOMAIN rs[j] = SuccessFields
              /\ rs[j].status = "error" =>
                    DOMAIN rs[j] = ErrorFields /\ rs[j].error # << >>
        /\ reports[k].kind \in {"json", "xlsx", "html"} =>
              /\ reports[k].total = Len(rs)
              /\ reports[k].successful + reports[k].failed = reports[k].total

\* the HTML report was handed a success record and an error record
C18_Witness ==
    \E k \in 1..Len(reports) :
        /\ reports[k].kind = "html"
        /\ reports[k].successful >= 1
        /\ reports[k].failed >= 1

\* the URLs of the input rows, as main takes them
RowUrls == [i \in 1..Len(df_input.rows) |-> UrlOfRow(i)]

----------------------------------------------------------------------------
(* Claims about the extraction (checked under SpecExtract) *)

\* the element is not of a noise tag and not inside an element of one
Survives(e) == e.tag \notin NoiseTags /\ e.inside \notin NoiseTags

\* the place of the first find of the chain that takes the element, 5 (the
\* body) when none does
PriorityOf(e) ==
    LET ks == {k \in 1..4 : selects(SelectorOrder[k], e)}
    IN  IF ks = {} THEN 5 ELSE CHOOSE k \in ks : \A m \in ks : k <= m

\* the text of text nodes as the extraction hands it back
CleanText(nodes) == strip(SubNewlinesFrom(get_text(decompose(nodes)), 1))

\* the nodes of the surviving elements among es[from..], in document order
RECURSIVE SurvivingNodes(_, _)
SurvivingNodes(es, from) ==
    IF from > Len(es) THEN << >>
    ELSE (IF Survives(es[from]) THEN es[from].nodes ELSE << >>)
         \o SurvivingNodes(es, from + 1)

\* C13: the text extracted from a fetched page is that of the first element in
\* priority order (article, class pattern, itemprop articleBody, div of class
\* article__text) among the elements that survive the removal of the noise
\* elements and their subtrees, the first such element in document order; a
\* lower priority is taken only when no surviving element has a higher one;
\* with no such element it is the text of the body, and without a body that
\* of the whole document; the extraction never ends in an error.
C13_PriorityRoot ==
    pc \in {"extracted", "raised"} =>
        LET es   == response.page.elements
            live == {i \in 1..Len(es) : Survives(es[i])}
            best == {i \in live : PriorityOf(es[i]) < 5
                                  /\ \A j \in live : PriorityOf(es[i]) <= PriorityOf(es[j])}
        IN  /\ pc = "extracted"
            /\ IF best # {}
               THEN original_text =
                      CleanText(es[CHOOSE i \in best : \A j \in best : i <= j].nodes)
               ELSE IF response.page.has_body
                    THEN original_text = CleanText(SurvivingNodes(es, 1))
                    ELSE original_text =
                           CleanText(response.page.head \o SurvivingNodes(es, 1))

\* an article inside the navigation and a surviving element with a class of
\* the pattern: the text is that of the latter
C13_Witness ==
    /\ pc = "extracted"
    /\ \E i, j \in 1..Len(response.page.elements) :
         LET es == response.page.elements IN
         /\ es[i].tag = "article" /\ es[i].inside = "nav"
         /\ Survives(es[j]) /\ class_pattern(es[j].class)
         /\ original_text = << "b" >>

\* no element is taken by a find and there is no body: the whole document
C13_WitnessDocument ==
    /\ pc = "extracted"
    /\ ~response.page.has_body
    /\ Len(response.page.elements) > 0
    /\ \A i \in 1..Len(response.page.elements) :
         PriorityOf(response.page.elements[i]) = 5
    /\ Len(original_text) > 1

----------------------------------------------------------------------------
(* Claims about the wait policy (checked under SpecPolicy) *)

\* the attempt after which waits[k] is slept
AttemptOfWait(k) == attempt_number - Len(waits) + k - 1

----------------------------------------------------------------------------
(* Claims about the reports of one record (checked under SpecReport) *)

\* C11: the analysis of a success record carries one verdict on the
\* similarity: the high one exactly when the similarity is above 80, the low
\* one exactly when it is below 50, the moderate one for every similarity
\* from 50 to 80.
C11_VerdictBands ==
    pc = "reported" =>
        LET sim     == results[1].similarity
            verdict == reports[1].entries[1].ai_analysis.verdict
        IN  /\ verdict \in {"high", "moderate", "low"}
            /\ verdict = "high" <=> sim > Percent(80)
            /\ verdict = "low" <=> sim < Percent(50)
            /\ (sim >= Percent(50) /\ sim <= Percent(80)) => verdict = "moderate"

\* C12: the severity written for a success record is High exactly when more
\* than 30 lines are missing or some missing sample is longer than 100
\* characters; otherwise Medium exactly when more than 10 lines are missing;
\* otherwise Low.
C12_Severity ==
    pc = "reported" =>
        LET r        == results[1]
            severity == reports[3].summary[1].missing_importance
            long     == \E k \in 1..Len(r.example_missing) : Len(r.example_missing[k]) > 100
            high     == r.missing_lines_count > 30 \/ long
        IN  /\ severity = "High" <=> high
            /\ ~high => (severity = "Medium" <=> r.missing_lines_count > 10)
            /\ (~high /\ r.missing_lines_count <= 10) => severity = "Low"

\* one long sample and no more than 10 missing lines: High
C12_Witness ==
    /\ pc = "reported"
    /\ results[1].missing_lines_count <= 10
    /\ \E k \in 1..Len(results[1].example_missing) : Len(results[1].example_missing[k]) > 100
    /\ reports[3].summary[1].missing_importance = "High"

\* between 11 and 30 missing lines, no long sample: Medium
C12_WitnessMedium ==
    /\ pc = "reported"
    /\ results[1].missing_lines_count > 10
    /\ reports[3].summary[1].missing_importance = "Medium"

====
